---- MODULE Spec2Model ----
(***************************************************************************)
(* A model of src/url_checker/url_checker.py: the URL monitor's state      *)
(* store (load_state / save_state over a JSON state file), the prober      *)
(* (check_url), the notifier (send_notification) and the commands check,   *)
(* reset and show_state.                                                   *)
(*                                                                         *)
(* Python values are tagged records [t, n, s] so that values of different  *)
(* Python types can be compared the way Python compares them.  A dict is   *)
(* a sequence of <<key, value>> pairs with distinct keys, in insertion     *)
(* order, as a Python dict is.  The state file holds text: save_state      *)
(* writes the text json.dump(state, f, indent=2) produces and load_state   *)
(* parses the text it finds.                                               *)
(***************************************************************************)
EXTENDS Integers, Sequences, FiniteSets, TLC

\* ------------------------------------------------------------------ bounds
\* The longest list of URLs one check command is given.
MaxUrls == 2

\* ---------------------------------------------------------- Python values
PyInt(n) == [t |-> "int", n |-> n, s |-> ""]
PyStr(x) == [t |-> "str", n |-> 0, s |-> x]
PyNone == [t |-> "none", n |-> 0, s |-> ""]

\* Python's  a == n  for a loaded value a and an int n.
PyEqInt(a, n) == a.t = "int" /\ a.n = n

EmptyDict == << >>

DictKeys(d) == {d[j][1] : j \in 1..Len(d)}

DictHas(d, k) == k \in DictKeys(d)

KeyIndex(d, k) == CHOOSE j \in 1..Len(d) : d[j][1] = k

\* d.get(k, None)
DictGet(d, k) == IF DictHas(d, k) THEN d[KeyIndex(d, k)][2] ELSE PyNone

\* A version of d[k] = v that forgets to overwrite a key it already holds.
DictSetKeepFirst(d, k, v) == IF DictHas(d, k) THEN d ELSE Append(d, <<k, v>>)

\* d[k] = v: an existing key keeps its place, a new key goes last.
DictSet(d, k, v) ==
    IF DictHas(d, k)
    THEN [d EXCEPT ![KeyIndex(d, k)] = <<k, v>>]
    ELSE Append(d, <<k, v>>)

\* The dict as a function from its keys, the order forgotten: two Python
\* dicts are equal when these are.
AsMap(d) == [k \in DictKeys(d) |-> DictGet(d, k)]

\* The dict of ints as a function from its keys to the ints.
IntsOf(d) == [k \in DictKeys(d) |-> DictGet(d, k).n]

\* ------------------------------------------------------------------- text
CharAt(s, j) == SubSeq(s, j, j)

StartsWith(s, p) == Len(s) >= Len(p) /\ SubSeq(s, 1, Len(p)) = p

Digits == "0123456789"

DigitChar(d) == CharAt(Digits, d + 1)

IsDigit(c) == \E d \in 0..9 : DigitChar(d) = c

DigitValue(c) == CHOOSE d \in 0..9 : DigitChar(d) = c

RECURSIVE NatToStr(_)
NatToStr(n) == IF n < 10 THEN DigitChar(n) ELSE NatToStr(n \div 10) \o DigitChar(n % 10)

\* An int formatter that loses the sign.
IntToStrNoSign(n) == IF n < 0 THEN NatToStr(0 - n) ELSE NatToStr(n)

\* str(n) for an int, as json.dump writes an int.
IntToStr(n) == IF n < 0 THEN "-" \o NatToStr(0 - n) ELSE NatToStr(n)

\* --------------------------------------------------------- json: writing
Quote == "\""

Backslash == "\\"

\* The body of a JSON string as json.dump writes it: a quote and a backslash
\* are escaped (the identifiers of the model hold no other character that
\* json.dump escapes).
RECURSIVE EscapeStr(_)
EscapeStr(s) ==
    IF s = "" THEN ""
    ELSE LET c == CharAt(s, 1)
             e == IF c = Quote \/ c = Backslash THEN Backslash \o c ELSE c
         IN  e \o EscapeStr(SubSeq(s, 2, Len(s)))

\* One "key": value line of the document, indented by two spaces.
DumpItem(kv) == "  " \o Quote \o EscapeStr(kv[1]) \o Quote \o ": " \o IntToStr(kv[2].n)

RECURSIVE DumpItems(_)
DumpItems(d) ==
    IF Len(d) = 1 THEN DumpItem(d[1])
    ELSE DumpItem(d[1]) \o ",\n" \o DumpItems(Tail(d))

\* json.dump(state, f, indent=2) of a dict from strings to ints: "{}" for the
\* empty dict, otherwise one item per line, in the dict's order.
JsonDump(d) == IF d = EmptyDict THEN "{}" ELSE "{\n" \o DumpItems(d) \o "\n}"

\* --------------------------------------------------------- json: reading
\* A parse step's result: whether it succeeded, the position after what it
\* read, and what it read (a value v, or a dict d, or neither).
Fail == [ok |-> FALSE, pos |-> 0, kind |-> "none", v |-> PyNone, d |-> EmptyDict]

GotValue(v, p) == [ok |-> TRUE, pos |-> p, kind |-> "scalar", v |-> v, d |-> EmptyDict]

GotDict(d, p) == [ok |-> TRUE, pos |-> p, kind |-> "dict", v |-> PyNone, d |-> d]

GotList(p) == [ok |-> TRUE, pos |-> p, kind |-> "list", v |-> PyNone, d |-> EmptyDict]

IsWs(c) == c = " " \/ c = "\n"

\* Whether position p of s holds the character c.
At(s, p, c) == p <= Len(s) /\ CharAt(s, p) = c

\* The first position at or after p that holds no white space.
RECURSIVE SkipWs(_, _)
SkipWs(s, p) == IF p <= Len(s) /\ IsWs(CharAt(s, p)) THEN SkipWs(s, p + 1) ELSE p

\* The string whose body starts at p (after its opening quote); acc is what
\* has been read of it.  A backslash escapes a quote or a backslash; a line
\* break inside a string is an error.
RECURSIVE ScanStr(_, _, _)
ScanStr(s, p, acc) ==
    IF p > Len(s) \/ At(s, p, "\n") THEN Fail
    ELSE IF At(s, p, Quote) THEN GotValue(PyStr(acc), p + 1)
    ELSE IF ~At(s, p, Backslash) THEN ScanStr(s, p + 1, acc \o CharAt(s, p))
    ELSE IF At(s, p + 1, Quote) \/ At(s, p + 1, Backslash)
         THEN ScanStr(s, p + 2, acc \o CharAt(s, p + 1))
    ELSE Fail

\* The digits from p on: acc is the number read so far.
RECURSIVE ScanDigits(_, _, _)
ScanDigits(s, p, acc) ==
    IF p <= Len(s) /\ IsDigit(CharAt(s, p))
    THEN ScanDigits(s, p + 1, acc * 10 + DigitValue(CharAt(s, p)))
    ELSE GotValue(PyInt(acc), p)

\* An int without its sign, from p: a single 0, or digits that start with
\* none.
ScanNat(s, p) ==
    IF p > Len(s) \/ ~IsDigit(CharAt(s, p)) THEN Fail
    ELSE IF At(s, p, "0") THEN GotValue(PyInt(0), p + 1)
    ELSE ScanDigits(s, p, 0)

\* The number r, read after a minus sign if minus.
Signed(minus, r) == IF r.ok /\ minus THEN GotValue(PyInt(0 - r.v.n), r.pos) ELSE r

\* A number parser that reads a minus sign and forgets it.
ScanIntNoSign(s, p) == ScanNat(s, IF At(s, p, "-") THEN p + 1 ELSE p)

\* An int from p.
ScanInt(s, p) == Signed(At(s, p, "-"), ScanNat(s, IF At(s, p, "-") THEN p + 1 ELSE p))

HasWord(s, p, w) == p + Len(w) - 1 <= Len(s) /\ SubSeq(s, p, p + Len(w) - 1) = w

\* A value that is no container, from p: a string, an int, null, true, false.
ScanScalar(s, p) ==
    IF p > Len(s) THEN Fail
    ELSE IF At(s, p, Quote) THEN ScanStr(s, p + 1, "")
    ELSE IF HasWord(s, p, "null") THEN GotValue(PyNone, p + 4)
    ELSE IF HasWord(s, p, "true") THEN GotValue([t |-> "bool", n |-> 1, s |-> ""], p + 4)
    ELSE IF HasWord(s, p, "false") THEN GotValue([t |-> "bool", n |-> 0, s |-> ""], p + 5)
    ELSE ScanInt(s, p)

\* The members of an object from p (a key is expected there): acc is the
\* dict read so far; a key read twice keeps its last value.
RECURSIVE ScanMembers(_, _, _)

\* After a member, at e: the object ends, or a comma and the next member.
MemberEnd(s, e, d) ==
    IF At(s, e, "}") THEN GotDict(d, e + 1)
    ELSE IF At(s, e, ",") THEN ScanMembers(s, SkipWs(s, e + 1), d)
    ELSE Fail

\* After the key k and the value x of a member.
MemberValue(s, k, x, acc) ==
    IF ~x.ok THEN Fail ELSE MemberEnd(s, SkipWs(s, x.pos), DictSet(acc, k.v.s, x.v))

\* After the key k of a member, at c: a colon and the value.
MemberColon(s, k, c, acc) ==
    IF ~At(s, c, ":") THEN Fail ELSE MemberValue(s, k, ScanScalar(s, SkipWs(s, c + 1)), acc)

MemberKey(s, k, acc) == IF ~k.ok THEN Fail ELSE MemberColon(s, k, SkipWs(s, k.pos), acc)

ScanMembers(s, p, acc) ==
    IF ~At(s, p, Quote) THEN Fail ELSE MemberKey(s, ScanStr(s, p + 1, ""), acc)

\* The elements of an array from p (an element is expected there).
RECURSIVE ScanElements(_, _)

ElementEnd(s, e) ==
    IF At(s, e, "]") THEN GotList(e + 1)
    ELSE IF At(s, e, ",") THEN ScanElements(s, SkipWs(s, e + 1))
    ELSE Fail

ElementValue(s, x) == IF ~x.ok THEN Fail ELSE ElementEnd(s, SkipWs(s, x.pos))

ScanElements(s, p) == ElementValue(s, ScanScalar(s, p))

\* The inside of an object whose first character after the brace is at q.
ScanObject(s, q) ==
    IF At(s, q, "}") THEN GotDict(EmptyDict, q + 1) ELSE ScanMembers(s, q, EmptyDict)

ScanArray(s, q) == IF At(s, q, "]") THEN GotList(q + 1) ELSE ScanElements(s, q)

\* A value from p.  The documents of the model nest nothing: an object's
\* values and an array's elements are scalars.
ScanValue(s, p) ==
    IF At(s, p, "{") THEN ScanObject(s, SkipWs(s, p + 1))
    ELSE IF At(s, p, "[") THEN ScanArray(s, SkipWs(s, p + 1))
    ELSE ScanScalar(s, p)

\* The value r if nothing but white space follows it in s.
Whole(s, r) == IF r.ok /\ SkipWs(s, r.pos) > Len(s) THEN r ELSE Fail

\* json.load of a text: one value, white space around it and nothing after
\* it; anything else is a JSONDecodeError (ok = FALSE).
JsonLoad(s) == Whole(s, ScanValue(s, SkipWs(s, 1)))

\* ------------------------------------------------------------- state store
\* The state file: whether it exists, whether this user may read it, whether
\* its bytes decode as text, and its text.
NoFile == [exists |-> FALSE, readable |-> TRUE, decodes |-> TRUE, content |-> ""]

TextFile(text) == [exists |-> TRUE, readable |-> TRUE, decodes |-> TRUE, content |-> text]

\* What load_state gives its caller: the exception that left it ("none" when
\* it returned), and the value it returned, a dict d unless kind says that
\* json.load gave a list or a str.
Returned(d) == [exc |-> "none", kind |-> "dict", d |-> d]

ReturnedOther(kind) == [exc |-> "none", kind |-> kind, d |-> EmptyDict]

Raised(exc) == [exc |-> exc, kind |-> "none", d |-> EmptyDict]

\* A load_state that returns {} whenever json.load gives anything.
LoadStateForgets(f) == Returned(EmptyDict)

\* What load_state makes of what json.load gave: a value is returned as it
\* is, after len() of it is logged, and an int, None or a bool has no len()
\* and raises TypeError; a JSONDecodeError is caught and gives {}.
Loaded(r) ==
    IF ~r.ok THEN Returned(EmptyDict)
    ELSE IF r.kind = "dict" THEN Returned(r.d)
    ELSE IF r.kind = "list" THEN ReturnedOther("list")
    ELSE IF r.v.t = "str" THEN ReturnedOther("str")
    ELSE Raised("TypeError")

\* load_state(state_file).  A missing file gives {}.  open's IOError is
\* caught and gives {}.  Bytes that do not decode raise UnicodeDecodeError,
\* which is not caught.
load_state(f) ==
    IF ~f.exists THEN Returned(EmptyDict)
    ELSE IF ~f.readable THEN Returned(EmptyDict)
    ELSE IF ~f.decodes THEN Raised("UnicodeDecodeError")
    ELSE Loaded(JsonLoad(f.content))

\* The ways save_state's write can go: it completes; open() raises IOError
\* and the file is as it was; or open() has truncated the file and the write
\* raises IOError after `cut` characters.  Whatever the cut, what is left is
\* no JSON document (the closing brace is missing): the model cuts at 0.
SaveOutcomes == {[io |-> "ok", cut |-> 0], [io |-> "open_fails", cut |-> 0],
                 [io |-> "write_fails", cut |-> 0]}

\* A save_state that writes the new entries over the old ones and keeps the
\* old entries it has no new value for.
RECURSIVE MergeInto(_, _)
MergeInto(old, new) ==
    IF new = EmptyDict THEN old
    ELSE MergeInto(DictSet(old, new[1][1], new[1][2]), Tail(new))

\* The file after a write of text that goes as out says.
Written(f, text, out) ==
    IF out.io = "open_fails" THEN f
    ELSE IF out.io = "write_fails" THEN TextFile(SubSeq(text, 1, out.cut))
    ELSE TextFile(text)

SaveStateMerges(f, state, out) == Written(f, JsonDump(MergeInto(load_state(f).d, state)), out)

\* save_state(state_file, state): the file after it.  The IOError is caught
\* and logged in either failure.
save_state(f, state, out) == Written(f, JsonDump(state), out)

\* ------------------------------------------------------------------ prober
\* What requests.head does: a response with a status code, or an exception,
\* given by the requests.exceptions classes it is an instance of.
Response(code) == [response |-> TRUE, code |-> code, classes |-> {}]

Exception(classes) == [response |-> FALSE, code |-> 0, classes |-> classes]

ConnectTimeout == Exception({"ConnectTimeout", "ConnectionError", "Timeout", "RequestException"})

ReadTimeout == Exception({"ReadTimeout", "Timeout", "RequestException"})

ConnectionRefused == Exception({"ConnectionError", "RequestException"})

TooManyRedirects == Exception({"TooManyRedirects", "RequestException"})

\* A host name with a label of more than 63 characters: urllib3 raises its
\* LocationParseError, which is no RequestException of requests.
UnparsableHost == Exception({"LocationParseError", "LocationValueError", "HTTPError", "ValueError"})

StatusCodes == {200, 404}

TransportOutcomes ==
    {Response(c) : c \in StatusCodes}
        \cup {ConnectTimeout, ReadTimeout, ConnectionRefused, TooManyRedirects, UnparsableHost}

\* What check_url gives its caller: a pair, or the exception that left it.
Pair(status, desc) == [status |-> status, desc |-> desc, exc |-> "none"]

\* A prober with a sentinel of its own for a connection error.
CheckUrlKindedFault(o) ==
    IF o.response THEN Pair(o.code, "OK")
    ELSE IF "Timeout" \in o.classes THEN Pair(-1, "Timeout")
    ELSE IF "ConnectionError" \in o.classes THEN Pair(-2, "Connection Error")
    ELSE Pair(-1, "str(e)")

\* A prober whose except clause for ConnectionError comes first.
CheckUrlConnectionFirst(o) ==
    IF o.response THEN Pair(o.code, "OK")
    ELSE IF "ConnectionError" \in o.classes THEN Pair(-1, "Connection Error")
    ELSE IF "Timeout" \in o.classes THEN Pair(-1, "Timeout")
    ELSE IF "RequestException" \in o.classes THEN Pair(-1, "str(e)")
    ELSE [status |-> 0, desc |-> "", exc |-> "LocationParseError"]

\* check_url(url, timeout): (status_code, status_description).  The except
\* clauses are tried in the order written; an exception that is no
\* RequestException is not caught.
check_url(o) ==
    IF o.response THEN Pair(o.code, "OK")
    ELSE IF "Timeout" \in o.classes THEN Pair(-1, "Timeout")
    ELSE IF "ConnectionError" \in o.classes THEN Pair(-1, "Connection Error")
    ELSE IF "RequestException" \in o.classes THEN Pair(-1, "str(e)")
    ELSE [status |-> 0, desc |-> "", exc |-> "LocationParseError"]

\* ---------------------------------------------------------------- notifier
\* What apobj.notify does: returns True, returns False, or raises.
NotifyOutcomes == {"sent", "failed", "raised"}

\* A send_notification that takes every call that did not return False for
\* a success.
SendNotificationUnlessFalse(o) == o # "failed"

\* send_notification(url, old_status, new_status): notify's result, and
\* False when it raised.
send_notification(o) == o = "sent"

\* ------------------------------------------------------------ the commands
VARIABLES
    stateFile,          \* the state file
    pc,                 \* where the running command is; "idle" between commands
    cmd,                \* the running command
    formatted_urls,     \* check: the URLs to probe, in order
    idx,                \* check: the loop's position in formatted_urls
    notify,             \* check: --notify/--no-notify
    always_notify,      \* check: --always-notify
    previous_state,     \* check, show_state: what load_state gave
    current_state,      \* check: the dict the run builds
    notifications_sent, \* check: the count
    iter,               \* check: the locals of the iteration that is notifying
    table,              \* check: the rows of the results table
    notifier_calls,     \* the notifier's record of the calls made to it by this run
    save_result,        \* check: how the run's save_state went ("none" before it)
    file_at_start,      \* history: the state file as the running command found it
    remembered,         \* history: key -> status of the last complete write, reset or damage since
    everProbed,         \* history: key -> status of the last probe in any earlier run
    faultless,          \* history: no check was terminated, no save failed, no reset was run
    alerted,            \* history: the keys the notifier was called for, no non-200 status written for
                        \* them since; forgotten with a failed save, a reset, a file from elsewhere
    after_reset,        \* history: reset has run, and no check has probed since
    log                 \* the running command's lines in the log file, in order

vars == <<stateFile, pc, cmd, formatted_urls, idx, notify, always_notify, previous_state,
          current_state, notifications_sent, iter, table, notifier_calls, save_result,
          file_at_start, remembered, everProbed, faultless, alerted, after_reset, log>>

\* The URLs a command line or a URL file names.
RawUrls == {"example.test", "https://example.test", "https://a.test"}

\* The keys of the state file: the URLs as the check formats them.
Keys == {"https://example.test", "https://a.test"}

RECURSIVE SeqsUpTo(_, _)
SeqsUpTo(S, n) ==
    IF n = 0 THEN {<< >>}
    ELSE LET shorter == SeqsUpTo(S, n - 1)
         IN  shorter \cup {Append(q, x) : q \in {r \in shorter : Len(r) = n - 1}, x \in S}

\* --file: not given, or a path that does not exist, or a file that cannot be
\* read, or a file with these lines (a blank line and a padded line among
\* them).
NoUrlFile == [given |-> FALSE, exists |-> FALSE, readable |-> FALSE, lines |-> << >>]

UrlFile(lines) == [given |-> TRUE, exists |-> TRUE, readable |-> TRUE, lines |-> lines]

UrlFiles ==
    {NoUrlFile,
     [given |-> TRUE, exists |-> FALSE, readable |-> FALSE, lines |-> << >>],
     [given |-> TRUE, exists |-> TRUE, readable |-> FALSE, lines |-> << >>],
     UrlFile(<<"", "  ">>),
     UrlFile(<<"", " https://a.test ">>)}

\* line.strip(), for the padding the model's lines have: spaces.
RECURSIVE Strip(_)
Strip(s) ==
    IF s = "" THEN s
    ELSE IF CharAt(s, 1) = " " THEN Strip(SubSeq(s, 2, Len(s)))
    ELSE IF CharAt(s, Len(s)) = " " THEN Strip(SubSeq(s, 1, Len(s) - 1))
    ELSE s

\* A reading of the URL file that takes every line as it is.
FileUrlsAsWritten(lines) == lines

\* [line.strip() for line in f if line.strip()]
RECURSIVE FileUrls(_)
FileUrls(lines) ==
    IF lines = << >> THEN << >>
    ELSE IF Strip(Head(lines)) = "" THEN FileUrls(Tail(lines))
    ELSE <<Strip(Head(lines))>> \o FileUrls(Tail(lines))

\* A formatter that prefixes every URL.
FormatUrlAlways(url) == "https://" \o url

\* The loop body that formats one URL: https:// is put before a URL that does
\* not start with "http".
FormatUrl(url) == IF ~StartsWith(url, "http") THEN "https://" \o url ELSE url

FormatUrls(urls) == [j \in 1..Len(urls) |-> FormatUrl(urls[j])]

\* A line of the log: the call it reports (load_state, the request of
\* check_url, send_notification, save_state), the iteration that made it (0
\* outside the loop), its URL, and how it went.
LogLine(ev, occurrence, url, status, detail) ==
    [ev |-> ev, occurrence |-> occurrence, url |-> url, status |-> status, detail |-> detail]

\* The lines of load_state: what was loaded, or the exception that left it.
LoadLine(loaded) == LogLine("load", 0, "", 0, IF loaded.exc = "none" THEN loaded.kind ELSE loaded.exc)

\* The lines of check_url for one request: the status and the description,
\* or nothing but the traceback of the exception that left it.
HeadLine(occurrence, url, r) ==
    LogLine("head", occurrence, url, r.status, IF r.exc = "none" THEN r.desc ELSE "raised")

\* The lines of send_notification: the new status and what notify did.
NotifyLine(occurrence, url, new_status, o) == LogLine("notify", occurrence, url, new_status, o)

\* The line of save_state.
SaveLine(out) == LogLine("save", 0, "", 0, out.io)

\* The error line before raise typer.Exit(1).
ExitLine(url_file) ==
    LogLine("exit", 0, "", 1,
            IF url_file.given /\ ~url_file.exists THEN "URL file not found"
            ELSE IF url_file.given /\ ~url_file.readable THEN "Error reading URL file"
            ELSE "No URLs provided")

NoIter == [url |-> "", previous_status |-> PyNone, current_status |-> 0, status_desc |-> "",
           change_indicator |-> ""]

Init ==
    /\ stateFile = NoFile
    /\ pc = "idle"
    /\ cmd = "none"
    /\ formatted_urls = << >>
    /\ idx = 0
    /\ notify = FALSE
    /\ always_notify = FALSE
    /\ previous_state = Returned(EmptyDict)
    /\ current_state = EmptyDict
    /\ notifications_sent = 0
    /\ iter = NoIter
    /\ table = << >>
    /\ notifier_calls = << >>
    /\ save_result = "none"
    /\ file_at_start = NoFile
    /\ remembered = << >>
    /\ everProbed = << >>
    /\ faultless = TRUE
    /\ alerted = {}
    /\ after_reset = FALSE
    /\ log = << >>

\* check, from its start to the loop: the URLs are collected from the
\* arguments and the URL file; a URL file that is missing or cannot be read,
\* or no URL at all, ends the command with exit code 1; the URLs are
\* formatted and the previous state is loaded.
StartCheck(urls, url_file, n, an) ==
    LET file_bad == url_file.given /\ (~url_file.exists \/ ~url_file.readable)
        urls_to_check == urls \o (IF url_file.given /\ ~file_bad THEN FileUrls(url_file.lines) ELSE << >>)
    IN  /\ pc = "idle"
        /\ Len(urls_to_check) <= MaxUrls
        /\ cmd' = "check"
        /\ notify' = n
        /\ always_notify' = an
        /\ file_at_start' = stateFile
        /\ IF file_bad \/ urls_to_check = << >>
           THEN /\ pc' = "exit1"
                /\ log' = Append(log, ExitLine(url_file))
                /\ UNCHANGED <<formatted_urls, idx, previous_state>>
           ELSE /\ formatted_urls' = FormatUrls(urls_to_check)
                /\ idx' = 1
                /\ previous_state' = load_state(stateFile)
                /\ log' = Append(log, LoadLine(previous_state'))
                /\ pc' = IF previous_state'.exc # "none" THEN "crashed" ELSE "probe"
        /\ UNCHANGED <<stateFile, current_state, notifications_sent, iter, table,
                       notifier_calls, save_result, remembered, everProbed, faultless,
                       alerted, after_reset>>

\* str() of a loaded value, as an f-string shows it.
PyRepr(v) ==
    IF v.t = "int" THEN IntToStr(v.n)
    ELSE IF v.t = "str" THEN v.s
    ELSE IF v.t = "bool" THEN (IF v.n = 1 THEN "True" ELSE "False")
    ELSE "None"

\* w in s
Contains(s, w) == \E j \in 1..Len(s) : HasWord(s, j, w)

\* A classification that tests for a change before it tests for 200.
ChangeIndicatorChangedFirst(previous_status, current_status) ==
    IF previous_status = PyNone THEN "NEW"
    ELSE IF ~PyEqInt(previous_status, current_status)
         THEN "CHANGED (" \o PyRepr(previous_status) \o " -> " \o IntToStr(current_status) \o ")"
    ELSE IF ~PyEqInt(previous_status, 200) /\ current_status = 200 THEN "NOW AVAILABLE"
    ELSE "NO CHANGE"

\* The if/elif chain that determines what happened (the arrow and the check
\* mark of the source's strings are written in ASCII).
ChangeIndicator(previous_status, current_status) ==
    IF previous_status = PyNone THEN "NEW"
    ELSE IF ~PyEqInt(previous_status, 200) /\ current_status = 200 THEN "NOW AVAILABLE"
    ELSE IF ~PyEqInt(previous_status, current_status)
         THEN "CHANGED (" \o PyRepr(previous_status) \o " -> " \o IntToStr(current_status) \o ")"
    ELSE "NO CHANGE"

\* An --always-notify that notifies for every 200.
ShouldNotifyEvery200(previous_status, current_status, an) ==
    \/ previous_status # PyNone /\ ~PyEqInt(previous_status, 200) /\ current_status = 200
    \/ an /\ current_status = 200

\* A decision that takes an unseen URL at 200 for a recovery: None != 200.
ShouldNotifyUnseen(previous_status, current_status, an) ==
    \/ ~PyEqInt(previous_status, 200) /\ current_status = 200
    \/ an /\ current_status = 200 /\ PyEqInt(previous_status, 200)

\* An --always-notify that is ignored.
ShouldNotifyNoHeartbeat(previous_status, current_status, an) ==
    previous_status # PyNone /\ ~PyEqInt(previous_status, 200) /\ current_status = 200

\* A decision that takes --always-notify for given.
ShouldNotifyWhileUp(previous_status, current_status, an) ==
    previous_status # PyNone /\ current_status = 200

\* should_notify after the chain and the always_notify test.
ShouldNotify(previous_status, current_status, an) ==
    \/ previous_status # PyNone /\ ~PyEqInt(previous_status, 200) /\ current_status = 200
    \/ an /\ current_status = 200 /\ PyEqInt(previous_status, 200)

\* change_indicator after the always_notify test.
IndicatorAfterAlways(previous_status, current_status, an) ==
    IF an /\ current_status = 200 /\ PyEqInt(previous_status, 200)
    THEN "NO CHANGE (notifying)"
    ELSE ChangeIndicator(previous_status, current_status)

\* The transition class a change indicator stands for.
TransitionOf(change_indicator) ==
    IF StartsWith(change_indicator, "NEW") THEN "New"
    ELSE IF StartsWith(change_indicator, "NOW AVAILABLE") THEN "BecameAvailable"
    ELSE IF StartsWith(change_indicator, "CHANGED") THEN "Changed"
    ELSE "Unchanged"

\* The row table.add_row adds.  The previous and current columns are shown
\* as the values they are formatted from.
Row(it) == [url |-> it.url, previous |-> it.previous_status, current |-> it.current_status,
            desc |-> it.status_desc, indicator |-> it.change_indicator]

\* A loop that stays on the URL it is at.
NextIndexStays(i) == i

\* for url in formatted_urls: the next iteration takes the next URL.
NextIndex(i) == i + 1

\* A loop that ends after its first iteration.
AfterIterationBreaks == "save"

AfterIteration == IF idx + 1 > Len(formatted_urls) THEN "save" ELSE "probe"

\* An iteration that notifies whatever --no-notify says.
ProbeReturnedFlagIgnored(url, r, previous_status, it) ==
    /\ current_state' = DictSet(current_state, url, PyInt(r.status))
    /\ IF ShouldNotify(previous_status, r.status, always_notify)
       THEN /\ pc' = "notify"
            /\ iter' = it
            /\ UNCHANGED <<table, idx>>
       ELSE /\ pc' = AfterIteration
            /\ table' = Append(table, Row(it))
            /\ idx' = NextIndex(idx)
            /\ UNCHANGED iter

\* The iteration after check_url has returned r and the previous status was
\* looked up.
ProbeReturned(url, r, previous_status, it) ==
    /\ current_state' = DictSet(current_state, url, PyInt(r.status))
    /\ IF ShouldNotify(previous_status, r.status, always_notify) /\ notify
       THEN /\ pc' = "notify"
            /\ iter' = it
            /\ UNCHANGED <<table, idx>>
       ELSE /\ pc' = AfterIteration
            /\ table' = Append(table, Row(it))
            /\ idx' = NextIndex(idx)
            /\ UNCHANGED iter

\* A lookup that prefers the status an earlier iteration of this run stored.
PreviousStatusInRun(url) ==
    IF DictHas(current_state, url) THEN DictGet(current_state, url)
    ELSE DictGet(previous_state.d, url)

\* previous_state.get(url, None): the status the loaded state holds.
PreviousStatus(url) == DictGet(previous_state.d, url)

\* One iteration of the loop up to the notification: the probe, the lookup
\* of the previous status, the store of the current one, the classification
\* and the decision.  Without a notification to send, the iteration ends
\* here with its row.  An exception that leaves check_url ends the command;
\* a previous state that is no dict has no get(), and the command dies of the
\* AttributeError after its first probe.
ProbeStep(o) ==
    /\ pc = "probe"
    /\ LET url == formatted_urls[idx]
           r == check_url(o)
           previous_status == PreviousStatus(url)
           it == [url |-> url, previous_status |-> previous_status,
                  current_status |-> r.status, status_desc |-> r.desc,
                  change_indicator |-> IndicatorAfterAlways(previous_status, r.status, always_notify)]
       IN  /\ log' = Append(log, HeadLine(idx, url, r))
           /\ IF r.exc # "none" \/ previous_state.kind # "dict"
              THEN /\ pc' = "crashed"
                   /\ UNCHANGED <<current_state, iter, table, idx>>
              ELSE ProbeReturned(url, r, previous_status, it)
    /\ UNCHANGED <<stateFile, cmd, formatted_urls, notify, always_notify, previous_state,
                   notifications_sent, notifier_calls, save_result, file_at_start,
                   remembered, everProbed, faultless, alerted, after_reset>>

\* A call that passes the two statuses the other way round.
NotifierCallSwapped(it, occurrence, result) ==
    [url |-> it.url, old_status |-> PyInt(it.current_status),
     new_status |-> it.previous_status.n, occurrence |-> occurrence, result |-> result]

\* The call send_notification(url, previous_status, current_status), as the
\* notifier sees it: its arguments, the iteration that made it and its result.
NotifierCall(it, occurrence, result) ==
    [url |-> it.url, old_status |-> it.previous_status, new_status |-> it.current_status,
     occurrence |-> occurrence, result |-> result]

\* A marking that reports a notification that was not sent as a change.
MarkNotifiedOrFailed(ind, sent) ==
    IF sent THEN ind \o " (notified)" ELSE "CHANGED (not notified)"

\* The change indicator after send_notification: a True result is marked in
\* it, unless it says so already.
MarkNotified(ind, sent) ==
    IF sent /\ ~Contains(ind, "notified") /\ ~Contains(ind, "notifying")
    THEN ind \o " (notified)" ELSE ind

\* An iteration that saves what the run has probed as soon as it has
\* notified.
NotifyStepSaves(o) ==
    /\ pc = "notify"
    /\ LET sent == send_notification(o)
           marked == MarkNotified(iter.change_indicator, sent)
       IN  /\ notifier_calls' = Append(notifier_calls, NotifierCall(iter, idx, sent))
           /\ notifications_sent' = IF sent THEN notifications_sent + 1 ELSE notifications_sent
           /\ table' = Append(table, Row([iter EXCEPT !.change_indicator = marked]))
    /\ stateFile' = TextFile(JsonDump(current_state))
    /\ log' = Append(log, NotifyLine(idx, iter.url, iter.current_status, o))
    /\ iter' = NoIter
    /\ idx' = NextIndex(idx)
    /\ pc' = AfterIteration
    /\ UNCHANGED <<cmd, formatted_urls, notify, always_notify, previous_state,
                   current_state, save_result, file_at_start, remembered, everProbed,
                   faultless, alerted, after_reset>>

\* The rest of an iteration that notifies: send_notification is called with
\* the URL, the previous and the current status; a True result is counted
\* and marked in the row.
NotifyStep(o) ==
    /\ pc = "notify"
    /\ LET sent == send_notification(o)
           marked == MarkNotified(iter.change_indicator, sent)
       IN  /\ notifier_calls' = Append(notifier_calls, NotifierCall(iter, idx, sent))
           /\ notifications_sent' = IF sent THEN notifications_sent + 1 ELSE notifications_sent
           /\ table' = Append(table, Row([iter EXCEPT !.change_indicator = marked]))
    /\ log' = Append(log, NotifyLine(idx, iter.url, iter.current_status, o))
    /\ iter' = NoIter
    /\ idx' = NextIndex(idx)
    /\ pc' = AfterIteration
    /\ UNCHANGED <<stateFile, cmd, formatted_urls, notify, always_notify, previous_state,
                   current_state, save_result, file_at_start, remembered, everProbed,
                   faultless, alerted, after_reset>>

\* key -> the current status of the last row of the key.
LastProbes(rows) ==
    [k \in {rows[j].url : j \in 1..Len(rows)} |->
        rows[CHOOSE j \in 1..Len(rows) :
                 rows[j].url = k /\ \A m \in (j + 1)..Len(rows) : rows[m].url # k].current]

\* After the loop: save_state(state_file, current_state), then the summary.
SaveStep(out) ==
    /\ pc = "save"
    /\ stateFile' = save_state(stateFile, current_state, out)
    /\ save_result' = out.io
    /\ remembered' = IF out.io = "ok" THEN LastProbes(table)
                     ELSE IF out.io = "write_fails" THEN << >>
                     ELSE remembered
    /\ faultless' = (faultless /\ out.io = "ok")
    /\ log' = Append(log, SaveLine(out))
    /\ pc' = "done"
    /\ UNCHANGED <<cmd, formatted_urls, idx, notify, always_notify, previous_state,
                   current_state, notifications_sent, iter, table, notifier_calls,
                   file_at_start, everProbed, alerted, after_reset>>

\* A reset that reports and leaves the file where it is.
ResetKeepsFile ==
    /\ pc = "idle"
    /\ cmd' = "reset"
    /\ file_at_start' = stateFile
    /\ stateFile' = stateFile
    /\ remembered' = << >>
    /\ faultless' = FALSE
    /\ alerted' = {}
    /\ after_reset' = TRUE
    /\ pc' = "done"
    /\ UNCHANGED <<formatted_urls, idx, notify, always_notify, previous_state, current_state,
                   notifications_sent, iter, table, notifier_calls, save_result, everProbed,
                   log>>

\* reset: the state file is unlinked if it exists.
Reset ==
    /\ pc = "idle"
    /\ cmd' = "reset"
    /\ file_at_start' = stateFile
    /\ stateFile' = NoFile
    /\ remembered' = << >>
    /\ faultless' = FALSE
    /\ alerted' = {}
    /\ after_reset' = TRUE
    /\ pc' = "done"
    /\ UNCHANGED <<formatted_urls, idx, notify, always_notify, previous_state, current_state,
                   notifications_sent, iter, table, notifier_calls, save_result, everProbed,
                   log>>

\* show_state: the state is loaded and displayed.
ShowState ==
    /\ pc = "idle"
    /\ cmd' = "show_state"
    /\ file_at_start' = stateFile
    /\ previous_state' = load_state(stateFile)
    /\ log' = Append(log, LoadLine(previous_state'))
    /\ pc' = IF previous_state'.exc # "none" THEN "crashed" ELSE "done"
    /\ UNCHANGED <<stateFile, formatted_urls, idx, notify, always_notify, current_state,
                   notifications_sent, iter, table, notifier_calls, save_result,
                   remembered, everProbed, faultless, alerted, after_reset>>

\* old, with the entries of new over it.
Override(old, new) ==
    [k \in DOMAIN old \cup DOMAIN new |-> IF k \in DOMAIN new THEN new[k] ELSE old[k]]

\* The keys a check that has saved wrote a status other than 200 for.
WroteNot200 ==
    IF cmd = "check" /\ pc = "done" /\ save_result = "ok"
    THEN {k \in DOMAIN IntsOf(current_state) : IntsOf(current_state)[k] # 200}
    ELSE {}

\* The command's process is gone: nothing of it is left but the state file
\* (and, for the history, what it probed, whom it notified and whether it
\* was a check that probed).
Teardown ==
    /\ pc' = "idle"
    /\ cmd' = "none"
    /\ formatted_urls' = << >>
    /\ idx' = 0
    /\ notify' = FALSE
    /\ always_notify' = FALSE
    /\ previous_state' = Returned(EmptyDict)
    /\ current_state' = EmptyDict
    /\ notifications_sent' = 0
    /\ iter' = NoIter
    /\ table' = << >>
    /\ notifier_calls' = << >>
    /\ save_result' = "none"
    /\ file_at_start' = NoFile
    /\ log' = << >>
    /\ everProbed' = Override(everProbed, IntsOf(current_state))
    /\ alerted' = IF pc \in {"done", "saved"} /\ save_result \notin {"none", "ok"}
                  THEN {}
                  ELSE (alerted \cup {notifier_calls[c].url : c \in 1..Len(notifier_calls)})
                           \ WroteNot200
    /\ after_reset' = (after_reset /\ ~(cmd = "check" /\ pc # "exit1"))
    /\ UNCHANGED <<stateFile, remembered>>

\* A command that has ended (with its summary, with exit code 1, or with an
\* uncaught exception) leaves.
Finish ==
    /\ pc \in {"done", "exit1", "crashed"}
    /\ Teardown
    /\ UNCHANGED faultless

\* The process is terminated in the middle of a check, before save_state.
Kill ==
    /\ pc \in {"probe", "notify", "save"}
    /\ Teardown
    /\ faultless' = FALSE

\* One command, in full: every way a probe, a notification and a save go.
Next ==
    \/ \E urls \in SeqsUpTo(RawUrls, MaxUrls), url_file \in UrlFiles, n \in BOOLEAN, an \in BOOLEAN :
           StartCheck(urls, url_file, n, an)
    \/ \E o \in TransportOutcomes : ProbeStep(o)
    \/ \E o \in NotifyOutcomes : NotifyStep(o)
    \/ \E out \in SaveOutcomes : SaveStep(out)
    \/ Reset
    \/ ShowState

\* The statuses a check stores: the codes and the -1 of a fault.
PersistedStatuses == StatusCodes \cup {-1}

\* The dicts a completed check saves: it probed at least one URL.  The
\* starting files of the model hold their keys in this order.
KeyOrder == <<"https://example.test", "https://a.test">>

DictOf(g) ==
    LET ks == SelectSeq(KeyOrder, LAMBDA k : k \in DOMAIN g)
    IN  [j \in 1..Len(ks) |-> <<ks[j], PyInt(g[ks[j]])>>]

SavedDicts == {DictOf(g) : g \in UNION {[S -> PersistedStatuses] : S \in (SUBSET Keys) \ {{}}}}

\* A command starts with the state file earlier commands have left: none,
\* or what save_state made of the dict d the last check saved.
InitCommand ==
    /\ \E d \in SavedDicts \cup {EmptyDict}, out \in SaveOutcomes :
           /\ d = EmptyDict => out.io = "open_fails"
           /\ stateFile = save_state(NoFile, d, out)
           /\ remembered = IF out.io = "ok" THEN IntsOf(d) ELSE << >>
    /\ pc = "idle"
    /\ cmd = "none"
    /\ formatted_urls = << >>
    /\ idx = 0
    /\ notify = FALSE
    /\ always_notify = FALSE
    /\ previous_state = Returned(EmptyDict)
    /\ current_state = EmptyDict
    /\ notifications_sent = 0
    /\ iter = NoIter
    /\ table = << >>
    /\ notifier_calls = << >>
    /\ save_result = "none"
    /\ file_at_start = NoFile
    /\ everProbed = remembered
    /\ faultless = TRUE
    /\ alerted = {}
    /\ after_reset = FALSE
    /\ log = << >>

Spec == InitCommand /\ [][Next]_vars

\* Commands one after the other, from no state file, and checks that are
\* terminated: the probes answer with a code.
RunsTransportOutcomes == {Response(c) : c \in StatusCodes}

NextRuns ==
    \/ \E urls \in SeqsUpTo(RawUrls, MaxUrls), n \in BOOLEAN, an \in BOOLEAN :
           StartCheck(urls, NoUrlFile, n, an)
    \/ \E o \in RunsTransportOutcomes : ProbeStep(o)
    \/ \E o \in NotifyOutcomes : NotifyStep(o)
    \/ \E out \in SaveOutcomes : SaveStep(out)
    \/ Reset
    \/ ShowState
    \/ Finish
    \/ Kill

SpecRuns == Init /\ [][NextRuns]_vars

\* ------------------------------------------------------------- the store
\* The state file as something other than this program may leave it: files
\* that are no document of URLs and status codes.
MalformedFiles ==
    {[exists |-> TRUE, readable |-> FALSE, decodes |-> TRUE, content |-> "{}"],
     [exists |-> TRUE, readable |-> TRUE, decodes |-> FALSE, content |-> ""],
     TextFile(""),
     TextFile("{"),
     TextFile("{\"https://a.test\": 404,}"),
     TextFile("{\"https://a.test\": 404} x"),
     TextFile("42"),
     TextFile("null"),
     TextFile("true"),
     TextFile("[]"),
     TextFile("[404]"),
     TextFile("\"https://a.test\""),
     TextFile("{\"https://a.test\": \"up\"}"),
     TextFile("{\"https://a.test\": null}")}

\* The dicts the store is given to save: the empty one, the -1 of a fault, a
\* key with a quote and a backslash in it, two keys in either order.
StoreDicts ==
    {EmptyDict,
     <<<<"https://a.test", PyInt(-1)>>>>,
     <<<<"https://a.test", PyInt(404)>>>>,
     <<<<"a\"b\\c", PyInt(200)>>>>,
     <<<<"https://a.test", PyInt(200)>>, <<"https://example.test", PyInt(-1)>>>>,
     <<<<"https://example.test", PyInt(0)>>, <<"https://a.test", PyInt(200)>>>>}

\* Documents of URLs and status codes, as this program writes them and as
\* another writer of JSON may: without white space.
WellFormedFiles ==
    {TextFile(JsonDump(d)) : d \in StoreDicts}
        \cup {TextFile("{\"https://a.test\":404}"), TextFile(" {\"https://a.test\" : 200 } \n")}

\* Something other than this program puts a file in the place of the state
\* file, or removes it, between two commands.
ExternalWrite(f) ==
    /\ pc = "idle"
    /\ stateFile' = f
    /\ remembered' = IF f \in WellFormedFiles THEN IntsOf(load_state(f).d) ELSE << >>
    /\ faultless' = FALSE
    /\ alerted' = {}
    /\ after_reset' = FALSE
    /\ UNCHANGED <<pc, cmd, formatted_urls, idx, notify, always_notify, previous_state,
                   current_state, notifications_sent, iter, table, notifier_calls,
                   save_result, file_at_start, everProbed, log>>

\* save_state(state_file, state), called with the dict state.
CallSave(state, out) ==
    /\ pc = "idle"
    /\ cmd' = "store"
    /\ current_state' = state
    /\ file_at_start' = stateFile
    /\ stateFile' = save_state(stateFile, state, out)
    /\ save_result' = out.io
    /\ remembered' = IF out.io = "ok" THEN IntsOf(state)
                     ELSE IF out.io = "write_fails" THEN << >>
                     ELSE remembered
    /\ faultless' = (faultless /\ out.io = "ok")
    /\ log' = Append(log, SaveLine(out))
    /\ alerted' = {}
    /\ after_reset' = FALSE
    /\ pc' = "saved"
    /\ UNCHANGED <<formatted_urls, idx, notify, always_notify, previous_state,
                   notifications_sent, iter, table, notifier_calls, everProbed>>

\* load_state(state_file), called after a save_state or on the file as it is
\* found.
CallLoad ==
    /\ pc \in {"idle", "saved"}
    /\ cmd' = "store"
    /\ file_at_start' = stateFile
    /\ previous_state' = load_state(stateFile)
    /\ log' = Append(log, LoadLine(previous_state'))
    /\ pc' = "loaded"
    /\ UNCHANGED <<stateFile, formatted_urls, idx, notify, always_notify, current_state,
                   notifications_sent, iter, table, notifier_calls, save_result,
                   remembered, everProbed, faultless, alerted, after_reset>>

\* The caller of the store is done with what it got.
Return ==
    /\ pc \in {"saved", "loaded"}
    /\ Teardown
    /\ UNCHANGED faultless

\* The store on its own, and checks of one URL on whatever file is there.
NextStore ==
    \/ \E f \in MalformedFiles \cup WellFormedFiles \cup {NoFile} : ExternalWrite(f)
    \/ \E state \in StoreDicts, out \in SaveOutcomes : CallSave(state, out)
    \/ CallLoad
    \/ Return
    \/ \E url \in RawUrls, n \in BOOLEAN, an \in BOOLEAN : StartCheck(<<url>>, NoUrlFile, n, an)
    \/ \E o \in RunsTransportOutcomes : ProbeStep(o)
    \/ \E o \in NotifyOutcomes : NotifyStep(o)
    \/ \E out \in SaveOutcomes : SaveStep(out)
    \/ ShowState
    \/ Finish

SpecStore == Init /\ [][NextStore]_vars

\* ================================================================ claims
\* The set of the elements of a sequence.
Range(q) == {q[j] : j \in 1..Len(q)}

\* The iterations of the running check that have ended, by their rows.
Rows == 1..Len(table)

\* Whether the notifier was called by iteration j of the running check.
CalledFor(j) == \E c \in 1..Len(notifier_calls) : notifier_calls[c].occurrence = j

\* The calls the notifier got for the URL e in the running check.
CallsFor(e) == {c \in 1..Len(notifier_calls) : notifier_calls[c].url = e}

\* The iterations of the running check that probed the URL e.
OccurrencesOf(e) == {j \in 1..Len(formatted_urls) : formatted_urls[j] = e}

\* The loaded previous status of key k, absent as None.
Previous(k) == DictGet(previous_state.d, k)

\* A function of history, as the previous statuses it stands for.
StatusIn(h, k) == IF k \in DOMAIN h THEN PyInt(h[k]) ELSE PyNone

\* The loop of a check is running or has just ended; save_state has not run.
BeforeSave == cmd = "check" /\ pc \in {"probe", "notify", "save"}

\* The transition class the priority order of the specification gives.
ByPriority(previous, current) ==
    IF previous = PyNone THEN "New"
    ELSE IF previous.n # 200 /\ current = 200 THEN "BecameAvailable"
    ELSE IF previous.n # current THEN "Changed"
    ELSE "Unchanged"

\* C1: every probed occurrence whose previous status is absent or an int gets
\* the one transition class the priority order New, BecameAvailable, Changed,
\* Unchanged gives it; a previous status other than 200 with a current 200
\* is BecameAvailable and never Changed.
C1_TransitionByPriority ==
    \A j \in Rows :
        table[j].previous.t \in {"none", "int"}
            => TransitionOf(table[j].indicator) = ByPriority(table[j].previous, table[j].current)

\* C1's case: one run in which a URL goes from 404 to 200 and another from
\* 200 to a fault.
C1_Witness ==
    \E j \in Rows, m \in Rows :
        /\ table[j].previous = PyInt(404) /\ table[j].current = 200
        /\ TransitionOf(table[j].indicator) = "BecameAvailable"
        /\ table[m].previous = PyInt(200) /\ table[m].current = -1
        /\ TransitionOf(table[m].indicator) = "Changed"

C3_RemembersLastProbe ==
    (BeforeSave /\ faultless) => \A k \in Keys : Previous(k) = StatusIn(everProbed, k)

\* C3, amended: in a check, the previous status of an endpoint is the status
\* of its last probe in the last check that wrote the state file completely,
\* if that check probed the endpoint and no reset or failed write has removed
\* or damaged the file since; it is absent in every other case.
C3_RemembersLastSave ==
    BeforeSave =>
        /\ DictKeys(previous_state.d) \subseteq Keys
        /\ \A k \in Keys : Previous(k) = StatusIn(remembered, k)

\* C3's case: a check that loaded the status the last saved check probed for
\* one endpoint, and nothing for an endpoint that an earlier check probed and
\* the last saved check did not.
C3_Witness ==
    /\ BeforeSave /\ faultless
    /\ \E k \in DOMAIN remembered : Previous(k) = PyInt(remembered[k])
    /\ \E k \in DOMAIN everProbed : k \notin DOMAIN remembered /\ Previous(k) = PyNone

\* C4: every call of the notifier carries the URL of its occurrence, the
\* loaded previous status of that URL and the status its occurrence probed;
\* and with notifications enabled, an endpoint whose persisted status is not
\* 200, probed once in the run with the result 200, is BecameAvailable and
\* has exactly one call, with (endpoint, persisted status, 200).
C4_NotifierArguments ==
    /\ \A c \in 1..Len(notifier_calls) :
           LET call == notifier_calls[c]
           IN  /\ call.url = formatted_urls[call.occurrence]
               /\ call.old_status = Previous(call.url)
               /\ call.new_status = table[call.occurrence].current
    /\ (cmd = "check" /\ pc = "save" /\ notify) =>
           \A e \in DOMAIN remembered, j \in Rows :
               (remembered[e] # 200 /\ OccurrencesOf(e) = {j} /\ table[j].current = 200)
                   => /\ TransitionOf(table[j].indicator) = "BecameAvailable"
                      /\ \E c \in 1..Len(notifier_calls) :
                             /\ CallsFor(e) = {c}
                             /\ notifier_calls[c].occurrence = j
                             /\ notifier_calls[c].old_status = PyInt(remembered[e])
                             /\ notifier_calls[c].new_status = 200

\* C4's case: the persisted status of https://a.test is 404, the run probed
\* it once with the result 200, and the notifier was called with 404 and 200.
C4_Witness ==
    /\ cmd = "check" /\ pc = "save" /\ notify
    /\ "https://a.test" \in DOMAIN remembered /\ remembered["https://a.test"] = 404
    /\ Cardinality(OccurrencesOf("https://a.test")) = 1
    /\ \E c \in 1..Len(notifier_calls) :
           /\ notifier_calls[c].url = "https://a.test"
           /\ notifier_calls[c].old_status = PyInt(404)
           /\ notifier_calls[c].new_status = 200

\* A check has ended and its save_state wrote the file.
SavedRun == cmd = "check" /\ pc = "done" /\ save_result = "ok"

\* C5: after a check whose save succeeded, the state file holds a dict whose
\* keys are the formatted URLs of the run, each with the status of its last
\* probe in the run, and no entry of the loaded state for any other key.
C5_SaveReplaces ==
    SavedRun =>
        LET m == load_state(stateFile)
        IN  /\ m.exc = "none" /\ m.kind = "dict"
            /\ DictKeys(m.d) = Range(formatted_urls)
            /\ \A k \in DictKeys(m.d) : DictGet(m.d, k) = PyInt(LastProbes(table)[k])
            /\ \A k \in DictKeys(previous_state.d) \ Range(formatted_urls) : ~DictHas(m.d, k)

\* C5's case: the loaded state had a key that the run did not probe, and the
\* run probed one URL twice with different results.
C5_Witness ==
    /\ SavedRun
    /\ DictKeys(previous_state.d) \ Range(formatted_urls) # {}
    /\ Len(table) = 2 /\ table[1].url = table[2].url /\ table[1].current # table[2].current

C7_AlwaysNotifyEvery200 ==
    \A j \in Rows : (notify /\ always_notify /\ table[j].current = 200) => CalledFor(j)

\* C8: with always-notify and notifications enabled, an occurrence whose
\* loaded previous status is 200 and whose probe returns 200 is Unchanged and
\* the notifier is called for it; and in a run that follows a saved run which
\* recorded 200 for an endpoint, and probes the endpoint with 200 only, the
\* notifier is called for the endpoint.
C8_Heartbeat ==
    /\ \A j \in Rows :
           (notify /\ always_notify /\ table[j].previous = PyInt(200) /\ table[j].current = 200)
               => TransitionOf(table[j].indicator) = "Unchanged" /\ CalledFor(j)
    /\ (cmd = "check" /\ pc = "save" /\ notify /\ always_notify) =>
           \A e \in DOMAIN remembered :
               (/\ remembered[e] = 200
                /\ OccurrencesOf(e) # {}
                /\ \A j \in OccurrencesOf(e) : table[j].current = 200)
                   => /\ CallsFor(e) # {}
                      /\ \A j \in OccurrencesOf(e) : CalledFor(j)

\* C8's case: a run, after a saved run that recorded 200 for an endpoint,
\* has probed the endpoint at 200 and called the notifier for it.
C8_Witness ==
    /\ cmd = "check" /\ pc = "save" /\ notify /\ always_notify
    /\ \E e \in DOMAIN remembered :
           /\ remembered[e] = 200
           /\ OccurrencesOf(e) # {}
           /\ \A j \in OccurrencesOf(e) : table[j].current = 200 /\ CalledFor(j)

\* C9: a load_state that follows a save_state of a dict M of URLs and status
\* codes whose write succeeded returns a dict equal to M; the empty dict and
\* the value -1 are among the M.
C9_RoundTrip ==
    (cmd = "store" /\ pc = "loaded" /\ save_result = "ok") =>
        /\ previous_state.exc = "none"
        /\ previous_state.kind = "dict"
        /\ AsMap(previous_state.d) = AsMap(current_state)

\* C9's case: a dict of two keys, one at -1, was saved and loaded.
C9_Witness ==
    /\ cmd = "store" /\ pc = "loaded" /\ save_result = "ok"
    /\ Len(current_state) = 2
    /\ \E j \in 1..2 : current_state[j][2] = PyInt(-1)
    /\ previous_state.d = current_state

\* C9's other case: the empty dict was saved and loaded.
C9_WitnessEmpty ==
    /\ cmd = "store" /\ pc = "loaded" /\ save_result = "ok"
    /\ current_state = EmptyDict
    /\ file_at_start = TextFile("{}")
    /\ previous_state = Returned(EmptyDict)

\* The command or the caller has the result of its load_state.
HasLoaded ==
    \/ cmd = "store" /\ pc = "loaded"
    \/ cmd = "check" /\ pc \in {"probe", "notify", "save", "done", "crashed"}
    \/ cmd = "show_state" /\ pc \in {"done", "crashed"}

\* C10: load_state never raises and always returns a dict, the empty one when
\* the state file is absent, cannot be read or is no document of URLs and
\* status codes; and the check that called it goes on, with every URL New.
C10_LoadNeverRaises ==
    /\ HasLoaded =>
           /\ previous_state.exc = "none"
           /\ previous_state.kind = "dict"
           /\ file_at_start \in MalformedFiles \cup {NoFile} => previous_state.d = EmptyDict
    /\ pc # "crashed"
    /\ \A j \in Rows :
           file_at_start \in MalformedFiles \cup {NoFile} => TransitionOf(table[j].indicator) = "New"

\* The lines of the log that report a call of the kind ev.
LinesOf(ev) == {k \in 1..Len(log) : log[k].ev = ev}

\* The requests the log reports for iteration j.
HeadsOf(j) == {k \in LinesOf("head") : log[k].occurrence = j}

\* A check has ended with its summary.
CheckDone == cmd = "check" /\ pc = "done"

\* C11: when the save_state of a check fails, the check still ends with its
\* summary, with a row for every URL and with the count of the notifications
\* sent, and a load_state of the file then gives the state the check loaded
\* at its start.
C11_FailedSaveKeepsHistory ==
    (cmd = "check" /\ save_result \in {"open_fails", "write_fails"}) =>
        /\ pc = "done"
        /\ Len(table) = Len(formatted_urls)
        /\ notifications_sent = Cardinality({k \in LinesOf("notify") : log[k].detail = "sent"})
        /\ load_state(stateFile) = previous_state

\* C12: check_url never raises and never retries: every iteration has one
\* request, and it returns the code received with "OK", or -1 with
\* "Timeout", "Connection Error" or the text of another error; the status is
\* -1 exactly when the description is not "OK".
C12_ProberNeverRaises ==
    /\ \A k \in LinesOf("head") :
           /\ log[k].detail \in {"OK", "Timeout", "Connection Error", "str(e)"}
           /\ log[k].status = -1 <=> log[k].detail # "OK"
           /\ log[k].detail = "OK" => log[k].status \in StatusCodes
    /\ \A j \in Rows : Cardinality(HeadsOf(j)) = 1
    /\ \A k \in LinesOf("head") : log[k].occurrence \in 1..Len(formatted_urls)

\* C13: a check of N URLs does not end before it has probed each of the N
\* occurrences once, added the N rows in the order of the input and called
\* save_state, whichever probes fault and whichever notifications fail or
\* raise.
C13_RunsToCompletion ==
    cmd = "check" =>
        /\ pc \in {"probe", "notify", "save", "done", "exit1"}
        /\ Len(table) <= Len(formatted_urls)
        /\ \A j \in Rows : table[j].url = formatted_urls[j] /\ Cardinality(HeadsOf(j)) = 1
        /\ pc = "done" => Len(table) = Len(formatted_urls) /\ save_result # "none"

\* The requests of the log that returned, and key -> the status of the last
\* of them for the key.
Returns == {k \in LinesOf("head") : log[k].detail # "raised"}

LastReturned ==
    [u \in {log[k].url : k \in Returns} |->
        log[CHOOSE k \in Returns :
                log[k].url = u /\ \A m \in Returns : log[m].url = u => m <= k].status]

\* The calls the notifier got from iteration j.
CallsOf(j) == {c \in 1..Len(notifier_calls) : notifier_calls[c].occurrence = j}

\* C14: whether a call of the notifier succeeds, fails or raises, the row of
\* its iteration has the transition class the previous and the current
\* status give; the dict the check builds and saves holds the statuses the
\* probes returned and nothing of the notifier; and the notifier is called at
\* most once in an iteration.
C14_NotifierFailureChangesNothing ==
    /\ \A j \in Rows :
           /\ TransitionOf(table[j].indicator) =
                  TransitionOf(IndicatorAfterAlways(table[j].previous, table[j].current, always_notify))
           /\ Cardinality(CallsOf(j)) <= 1
    /\ cmd = "check" => IntsOf(current_state) = LastReturned
    /\ (CheckDone /\ save_result = "ok") => stateFile = TextFile(JsonDump(current_state))

\* C14's case: a check of two URLs that both became available has ended and
\* saved; the first notification succeeded and the second did not.
C14_Witness ==
    /\ CheckDone /\ save_result = "ok"
    /\ Len(notifier_calls) = 2
    /\ notifier_calls[1].result /\ ~notifier_calls[2].result
    /\ TransitionOf(table[1].indicator) = "BecameAvailable"
    /\ TransitionOf(table[2].indicator) = "BecameAvailable"
    /\ table[1].url # table[2].url

\* C15: a check calls load_state once, before its first request, and
\* save_state once, after the last iteration's request and notification; and
\* from the load to that save the state file is as the check found it.
C15_NoPartialPersistence ==
    /\ (cmd = "check" /\ pc \in {"probe", "notify", "save", "crashed"}) =>
           /\ stateFile = file_at_start
           /\ LinesOf("save") = {}
    /\ (cmd = "check" /\ pc # "exit1") => LinesOf("load") = {1}
    /\ CheckDone =>
           /\ LinesOf("save") = {Len(log)}
           /\ \A j \in 1..Len(formatted_urls) : HeadsOf(j) # {}
           /\ Len(table) = Len(formatted_urls)
           /\ Cardinality(LinesOf("notify")) = Len(notifier_calls)

\* C15's case: a check of two URLs, the first of them notified, has saved a
\* state that differs from the one it found.
C15_Witness ==
    /\ CheckDone /\ save_result = "ok"
    /\ Len(formatted_urls) = 2
    /\ Len(log) = 5
    /\ log[3].ev = "notify"
    /\ file_at_start.exists
    /\ stateFile # file_at_start

C16_WitnessFaults ==
    /\ CheckDone
    /\ Len(table) = 2 /\ table[1].current = -1
    /\ \E k \in LinesOf("notify") : log[k].detail = "raised"

\* The identifiers normalization is tried on: the URLs of the command lines,
\* and identifiers with and without "http" at their start.
NormInputs ==
    RawUrls \cup {"", "a", "http", "httpbin.test", "http://a.test", "ftp://a.test",
                  "HTTP://A.TEST", "xhttp://a.test", "https://https://a.test"}

\* The lists formatting is tried on: a URL twice, with another between.
NormSeqs ==
    {<< >>, <<"example.test">>, <<"https://a.test", "example.test", "https://a.test">>,
     <<"httpbin.test", "a", "https://example.test">>}

\* C17: when a check has formatted its URLs, formatting leaves an identifier
\* that starts with "http" as it is and puts "https://" before any other;
\* formatting a formatted identifier changes nothing; the formatted list has
\* the length and the order of the input; and the requests, the lookups of the previous status, the rows, the
\* notifier's calls and the keys that are saved all use the formatted URL.
C17_Normalization ==
    /\ (pc = "probe" /\ idx = 1) =>
           /\ \A x \in NormInputs :
                  /\ StartsWith(x, "http") => FormatUrl(x) = x
                  /\ ~StartsWith(x, "http") => FormatUrl(x) = "https://" \o x
                  /\ FormatUrl(FormatUrl(x)) = FormatUrl(x)
           /\ \A q \in NormSeqs :
                  /\ Len(FormatUrls(q)) = Len(q)
                  /\ \A j \in 1..Len(q) : FormatUrls(q)[j] = FormatUrl(q[j])
    /\ \A j \in 1..Len(formatted_urls) : FormatUrl(formatted_urls[j]) = formatted_urls[j]
    /\ \A k \in LinesOf("head") : log[k].url = formatted_urls[log[k].occurrence]
    /\ \A j \in Rows :
           /\ table[j].url = formatted_urls[j]
           /\ table[j].previous = Previous(formatted_urls[j])
    /\ \A c \in 1..Len(notifier_calls) :
           notifier_calls[c].url = formatted_urls[notifier_calls[c].occurrence]
    /\ cmd = "check" => DictKeys(current_state) \subseteq Range(formatted_urls)
    /\ (CheckDone /\ save_result = "ok") =>
           DictKeys(load_state(stateFile).d) = Range(formatted_urls)

\* C17's case: a check of a URL without a scheme and of a URL with one, which
\* found the formatted first URL in the state, has saved both formatted.
C17_Witness ==
    /\ CheckDone /\ save_result = "ok"
    /\ formatted_urls = FormatUrls(<<"example.test", "https://a.test">>)
    /\ formatted_urls # <<"example.test", "https://a.test">>
    /\ table[1].previous = PyInt(404)
    /\ DictKeys(load_state(stateFile).d) = {"https://example.test", "https://a.test"}

\* C18: in the log of a check the lines of the requests and notifications
\* come in the order of the iterations: the request of an iteration comes
\* before its notification, and both come before the request of the next
\* iteration.
C18_Sequential ==
    \A a \in LinesOf("head") \cup LinesOf("notify"), b \in LinesOf("head") \cup LinesOf("notify") :
        a < b =>
            /\ log[a].occurrence <= log[b].occurrence
            /\ log[a].occurrence = log[b].occurrence =>
                   log[a].ev = "head" /\ log[b].ev = "notify" /\ b = a + 1
            /\ log[b].ev = "notify" => log[b - 1].ev = "head" /\ log[b - 1].occurrence = log[b].occurrence

\* C18's case: two iterations, each with a request and a notification.
C18_Witness ==
    /\ Len(log) >= 5
    /\ log[2].ev = "head" /\ log[2].occurrence = 1
    /\ log[3].ev = "notify" /\ log[3].occurrence = 1
    /\ log[4].ev = "head" /\ log[4].occurrence = 2
    /\ log[5].ev = "notify" /\ log[5].occurrence = 2

\* The notifications of the log that notify reported as sent.
SentLines == {k \in LinesOf("notify") : log[k].detail = "sent"}

\* C19: notifications_sent is the number of the notifier's calls that
\* succeeded: it is 0 before the first, a call that fails or raises does not
\* count, it is at most the number of iterations that decided to notify, and
\* no step of a check makes it smaller.
C19_CountsSuccesses ==
    /\ [](/\ notifications_sent = Cardinality(SentLines)
          /\ notifications_sent <= Cardinality(LinesOf("notify"))
          /\ Cardinality(LinesOf("notify")) = Len(notifier_calls)
          /\ \A c \in 1..Len(notifier_calls) :
                 LET row == table[notifier_calls[c].occurrence]
                 IN  notify /\ ShouldNotify(row.previous, row.current, always_notify))
    /\ [][notifications_sent' >= notifications_sent]_vars

\* C19's case: a check has ended after two calls of the notifier, one that
\* was sent and one that raised, with the count 1.
C19_Witness ==
    /\ CheckDone
    /\ notifications_sent = 1
    /\ \E a \in LinesOf("notify"), b \in LinesOf("notify") :
           log[a].detail = "sent" /\ log[b].detail = "raised"

\* C20: a probe that times out returns -1 with "Timeout"; a row whose probe
\* faulted has the current status -1 and the class -1 gives it against the
\* previous status like any other integer: Unchanged after a stored -1
\* whatever the fault, and BecameAvailable for a 200 after a stored -1; and
\* the -1, an integer and nothing of the description, is what is saved for a
\* URL whose last probe faulted.
C20_FaultIsAStatus ==
    /\ \A o \in TransportOutcomes :
           "Timeout" \in o.classes => check_url(o) = Pair(-1, "Timeout")
    /\ \A j \in Rows :
           /\ table[j].desc # "OK" => table[j].current = -1
           /\ (table[j].current = -1 \/ table[j].previous = PyInt(-1)) =>
                  TransitionOf(table[j].indicator) = ByPriority(table[j].previous, table[j].current)
           /\ (table[j].previous = PyInt(-1) /\ table[j].current = -1) =>
                  TransitionOf(table[j].indicator) = "Unchanged"
           /\ (table[j].previous = PyInt(-1) /\ table[j].current = 200) =>
                  TransitionOf(table[j].indicator) = "BecameAvailable"
    /\ (CheckDone /\ save_result = "ok" /\ \E j \in Rows : table[j].current = -1) =>
           LET saved == load_state(stateFile).d
           IN  \A j \in Rows :
                   (table[j].current = -1 /\ \A m \in (j + 1)..Len(table) : table[m].url # table[j].url)
                       => DictGet(saved, table[j].url) = PyInt(-1)

\* C20's case: after a stored -1 for both URLs, one probe ends in a
\* connection error and is Unchanged, the other returns 200 and is
\* BecameAvailable, and the check has saved.
C20_Witness ==
    /\ CheckDone /\ save_result = "ok"
    /\ \E j \in Rows, m \in Rows :
           /\ table[j].previous = PyInt(-1) /\ table[j].current = -1
           /\ table[j].desc = "Connection Error"
           /\ TransitionOf(table[j].indicator) = "Unchanged"
           /\ table[m].previous = PyInt(-1) /\ table[m].current = 200
           /\ TransitionOf(table[m].indicator) = "BecameAvailable"
    /\ \E u \in DictKeys(load_state(stateFile).d) : DictGet(load_state(stateFile).d, u) = PyInt(-1)

\* C20's other case: a probe that timed out, after a stored 200.
C20_WitnessTimeout ==
    \E j \in Rows :
        /\ table[j].desc = "Timeout" /\ table[j].current = -1
        /\ table[j].previous = PyInt(200)
        /\ TransitionOf(table[j].indicator) = "Changed"

\* C21: when a formatted URL occurs more than once in a check, each of its
\* occurrences is classified against the status the state file held when the
\* check started, the first as the later ones, whatever an earlier occurrence
\* of the run stored; with notifications on, each occurrence that finds a
\* stored status other than 200 and probes 200 is NOW AVAILABLE and calls the
\* notifier with the stored status as the old one.
C21_OccurrencesAgainstLoaded ==
    BeforeSave =>
        \A j \in Rows :
            Cardinality(OccurrencesOf(table[j].url)) > 1 =>
                LET stored == StatusIn(remembered, table[j].url)
                IN  /\ table[j].previous = stored
                    /\ TransitionOf(table[j].indicator) = ByPriority(stored, table[j].current)
                    /\ (stored # PyNone /\ stored.n # 200 /\ table[j].current = 200 /\ notify) =>
                           /\ TransitionOf(table[j].indicator) = "BecameAvailable"
                           /\ \E c \in CallsOf(j) : notifier_calls[c].old_status = stored

\* Reached: the file holds 404 for a URL given twice, both probes return 200,
\* both rows are NOW AVAILABLE and the notifier was called twice.
C21_Witness ==
    /\ BeforeSave
    /\ Len(table) = 2
    /\ table[1].url = table[2].url
    /\ table[1].url \in DOMAIN remembered
    /\ remembered[table[1].url] = 404
    /\ \A j \in Rows : table[j].current = 200 /\ TransitionOf(table[j].indicator) = "BecameAvailable"
    /\ Len(notifier_calls) = 2
    /\ notifier_calls[1].url = notifier_calls[2].url

\* C22: a probe that ends in a request fault reports it in the fixed order
\* Timeout, ConnectionError, any other request fault: whenever the transport
\* raises an exception that is a Timeout, a connect timeout that is a
\* ConnectionError too included, the probe gives (-1, "Timeout"); it gives
\* "Connection Error" exactly for the exceptions that are a ConnectionError
\* and no Timeout, and the text of the exception exactly for the request
\* faults that are neither.
C22_FaultOrder ==
    [][\A o \in TransportOutcomes :
           (~o.response /\ "RequestException" \in o.classes /\ ProbeStep(o)) =>
               LET line == log'[Len(log')]
               IN  /\ line.ev = "head" /\ line.status = -1
                   /\ "Timeout" \in o.classes => line.detail = "Timeout"
                   /\ line.detail = "Connection Error" <=>
                          ("ConnectionError" \in o.classes /\ "Timeout" \notin o.classes)
                   /\ line.detail = "str(e)" <=>
                          ("ConnectionError" \notin o.classes /\ "Timeout" \notin o.classes)]_vars

\* Reached: a check whose first probe timed out and whose second ended in a
\* connection error, each with its row.
C22_Witness ==
    /\ cmd = "check"
    /\ Len(table) = 2
    /\ table[1].desc = "Timeout" /\ table[1].current = -1
    /\ table[2].desc = "Connection Error" /\ table[2].current = -1
    /\ \E k \in HeadsOf(1) : log[k].detail = "Timeout"
    /\ \E k \in HeadsOf(2) : log[k].detail = "Connection Error"

\* C23: the notify flag decides delivery and nothing else.  The transition
\* class of every row is the class of the indicator the previous status, the
\* current status and --always-notify give, and the dict a check builds and
\* saves holds the last probe of every URL: neither depends on the flag, so
\* two checks that differ in the flag alone have the same classes and save
\* the same state.  With --no-notify the rows carry that indicator unmarked,
\* the notifier is never called and the count is 0.
C23_NotifyOnlyDelivers ==
    cmd = "check" =>
        /\ \A j \in Rows :
               LET quiet == IndicatorAfterAlways(table[j].previous, table[j].current, always_notify)
               IN  /\ TransitionOf(table[j].indicator) = TransitionOf(quiet)
                   /\ ~notify => table[j].indicator = quiet
        /\ pc \in {"save", "done"} => IntsOf(current_state) = LastProbes(table)
        /\ SavedRun => IntsOf(load_state(stateFile).d) = LastProbes(table)
        /\ ~notify =>
               /\ pc # "notify"
               /\ notifier_calls = << >>
               /\ notifications_sent = 0
               /\ LinesOf("notify") = {}

\* Reached: a check with --no-notify and --always-notify has saved; one URL
\* recovered from a stored 404 and one stayed at 200, each row has its class,
\* and the notifier was not called.
C23_Witness ==
    /\ SavedRun /\ ~notify /\ always_notify
    /\ \E j \in Rows, m \in Rows :
           /\ table[j].previous = PyInt(404) /\ table[j].current = 200
           /\ TransitionOf(table[j].indicator) = "BecameAvailable"
           /\ table[m].previous = PyInt(200) /\ table[m].current = 200
           /\ TransitionOf(table[m].indicator) = "Unchanged"
    /\ notifier_calls = << >>
    /\ notifications_sent = 0

\* Reached as well: the same check with notifications on; the classes are the
\* same and the notifier was called for both rows.
C23_WitnessNotify ==
    /\ SavedRun /\ notify /\ always_notify
    /\ \E j \in Rows, m \in Rows :
           /\ table[j].previous = PyInt(404) /\ table[j].current = 200
           /\ TransitionOf(table[j].indicator) = "BecameAvailable"
           /\ table[m].previous = PyInt(200) /\ table[m].current = 200
           /\ TransitionOf(table[m].indicator) = "Unchanged"
    /\ Len(notifier_calls) = 2

C25_NoRepeatedAlert ==
    (BeforeSave /\ faultless /\ ~always_notify) =>
        \A c \in 1..Len(notifier_calls) :
            LET e == notifier_calls[c].url
            IN  /\ e \notin alerted
                /\ e \in DOMAIN remembered
                /\ remembered[e] # 200

\* Reached: the notifier was called for an endpoint in an earlier run, the
\* last run saved 200 for it, and the running check, with notifications on
\* and without --always-notify, has probed it at 200 again and ended its loop
\* without a call.
C25_Witness ==
    /\ cmd = "check" /\ pc = "save"
    /\ faultless /\ notify /\ ~always_notify
    /\ \E e \in alerted :
           /\ e \in DOMAIN remembered
           /\ remembered[e] = 200
           /\ OccurrencesOf(e) # {}
           /\ \A j \in OccurrencesOf(e) : table[j].current = 200
           /\ CallsFor(e) = {}

\* C26: a check that stops after it called the notifier for an endpoint and
\* before its save_state leaves the state file as it was.  While the file
\* holds the old status, other than 200, of an endpoint the notifier was
\* called for, a check with notifications on loads that status, and every
\* occurrence that probes the endpoint at 200 is BecameAvailable again and
\* calls the notifier again, with the old status and 200.
C26_AlertedAgainAfterStop ==
    (BeforeSave /\ notify) =>
        \A e \in alerted :
            (e \in DOMAIN remembered /\ remembered[e] # 200) =>
                /\ Previous(e) = PyInt(remembered[e])
                /\ \A j \in Rows :
                       (table[j].url = e /\ table[j].current = 200) =>
                           /\ TransitionOf(table[j].indicator) = "BecameAvailable"
                           /\ \E c \in CallsOf(j) :
                                  /\ notifier_calls[c].old_status = PyInt(remembered[e])
                                  /\ notifier_calls[c].new_status = 200

\* Reached: a check was terminated after the notifier was called for an
\* endpoint stored at 404; the running check has probed the endpoint at 200,
\* found it BecameAvailable and notified a second time.
C26_Witness ==
    /\ BeforeSave /\ notify /\ ~faultless
    /\ \E j \in Rows :
           /\ table[j].url \in alerted
           /\ table[j].url \in DOMAIN remembered
           /\ remembered[table[j].url] = 404
           /\ table[j].previous = PyInt(404)
           /\ table[j].current = 200
           /\ TransitionOf(table[j].indicator) = "BecameAvailable"
           /\ \E c \in CallsOf(j) : notifier_calls[c].result

\* C27: between the commands, and when a check has ended with its summary,
\* the state file is absent or its text is a JSON object in which every key
\* starts with "http" and has one int, -1 or a status code; when a check has
\* ended, every entry is the URL and the status of a probe of that check.
C27_AbsentOrStatusMap ==
    (pc = "idle" \/ CheckDone) =>
        \/ stateFile = NoFile
        \/ LET doc == JsonLoad(stateFile.content)
           IN  /\ stateFile.readable /\ stateFile.decodes
               /\ doc.ok /\ doc.kind = "dict"
               /\ \A k \in DictKeys(doc.d) :
                      /\ StartsWith(k, "http")
                      /\ Cardinality({j \in 1..Len(doc.d) : doc.d[j][1] = k}) = 1
                      /\ DictGet(doc.d, k).t = "int"
                      /\ DictGet(doc.d, k).n \in PersistedStatuses
                      /\ CheckDone =>
                             \E j \in Rows : table[j].url = k /\ table[j].current = DictGet(doc.d, k).n

C28_WitnessReset ==
    cmd = "reset" /\ pc = "done" /\ file_at_start # NoFile /\ stateFile = NoFile

C28_WitnessNoFile ==
    cmd = "reset" /\ pc = "done" /\ file_at_start = NoFile /\ stateFile = NoFile

====
